---- MODULE Spec2Model ----
(***************************************************************************)
(* A model of the state-storage core of rooch: the view/transport mapping  *)
(* of crates/rooch-rpc-api/src/jsonrpc_types/state_view.rs, the gas        *)
(* schedule of the table extension                                         *)
(* (crates/rooch-framework/src/natives/gas_parameter/table_extension.rs)   *)
(* and the indexer's row schema (crates/rooch-indexer/src/schema.rs).      *)
(***************************************************************************)
EXTENDS Integers, Sequences, FiniteSets, TLC

VARIABLES
    pc,         \* view layer: "domain" | "view" | "done"
    kind,       \* view layer: which conversion this run exercises
    domain,     \* view layer: the canonical value held
    view,       \* view layer: the wire/display value
    origin,     \* view layer: "domain" (rendered by this system) | "wire"
    resolve_address, \* view layer: the address the resolver supplied
    result,     \* view layer: what the way back (or a try_new) returned
    MUL,        \* box store: the protocol-wide gas scaling constant
    tables,     \* box store: handle -> status and boxes (key -> serialized size)
    last_op,    \* box store: the last primitive called, its outcome and its charge
    db,         \* indexer: the five tables, each the set of its rows
    high_water, \* indexer: the highest tx_order applied (-1: none)
    applied,    \* indexer: the deliveries applied, in the order applied
    buffer,     \* indexer: the deliveries rejected as out of order
    last_delivery, \* indexer: the delivery handled last
    last_error  \* indexer: "none" | "OutOfOrderDelivery"

viewVars == <<pc, kind, domain, view, origin, resolve_address, result>>
boxVars == <<MUL, tables, last_op>>
indexerVars == <<db, high_water, applied, buffer, last_delivery, last_error>>

vars == <<pc, kind, domain, view, origin, resolve_address, result,
          MUL, tables, last_op,
          db, high_water, applied, buffer, last_delivery, last_error>>

-----------------------------------------------------------------------------
(* Bounds and sample universes.                                            *)

MaxByte == 1
MaxValueLen == 2

Bytes == UNION {[1..n -> 0..MaxByte] : n \in 0..MaxValueLen}

\* TypeTag, in the declaration order of its variants.
TypeTags == <<"bool", "u8", "u64">>
TypeTagSet == {TypeTags[i] : i \in 1..Len(TypeTags)}

\* AnnotatedMoveValue: what the decode collaborator produced.
DecodedValues == {"d1", "d2"}

None == [tag |-> "None"]
Some(x) == [tag |-> "Some", val |-> x]

-----------------------------------------------------------------------------
(* StrView<T>(pub T): a tuple struct with the single field .0              *)

StrView(x) == <<x>>
StrView_0(v) == v[1]

TypeTagView_from(t) == StrView(t)
TypeTag_from(v) == StrView_0(v)

AnnotatedMoveValueView_from(d) == [annotated |-> d]

-----------------------------------------------------------------------------
(* State, AnnotatedState, StateView                                        *)

State(value, value_type) == [value |-> value, value_type |-> value_type]
AnnotatedState(state, decoded_value) ==
    [state |-> state, decoded_value |-> decoded_value]

States == {State(b, t) : b \in Bytes, t \in TypeTagSet}
AnnotatedStates == {AnnotatedState(s, d) : s \in States, d \in DecodedValues}

StateView_from_State(state) ==
    [value |-> StrView(state.value),
     value_type |-> TypeTagView_from(state.value_type),
     decoded_value |-> None]

StateView_from_AnnotatedState(state) ==
    [value |-> StrView(state.state.value),
     value_type |-> TypeTagView_from(state.state.value_type),
     decoded_value |-> Some(AnnotatedMoveValueView_from(state.decoded_value))]

Mut_State_from_StateView(state) ==
    [value |-> StrView_0(state.value),
     value_type |-> IF state.decoded_value = None
                    THEN TypeTag_from(state.value_type)
                    ELSE TypeTags[1]]

State_from_StateView(state) ==
    [value |-> StrView_0(state.value),
     value_type |-> TypeTag_from(state.value_type)]

-----------------------------------------------------------------------------
(* KeyState and its canonical order; BTreeMap<K, V> as the sequence of its *)
(* (key, value) pairs in iteration order.                                  *)

KeyState(key, key_type) == [key |-> key, key_type |-> key_type]

TypeTagIndex(t) == CHOOSE i \in 1..Len(TypeTags) : TypeTags[i] = t

\* Vec<u8>: lexicographic, a proper prefix first.
BytesLess(a, b) ==
    \E i \in 1..(Len(b)) :
        /\ i <= Len(a) + 1
        /\ \A j \in 1..(i - 1) : a[j] = b[j]
        /\ (i = Len(a) + 1 \/ a[i] < b[i])

KeyStateLess(a, b) ==
    \/ TypeTagIndex(a.key_type) < TypeTagIndex(b.key_type)
    \/ /\ a.key_type = b.key_type
       /\ BytesLess(a.key, b.key)

BTreeMap_new == <<>>

BTreeMap_insert(m, k, v) ==
    IF \E i \in 1..Len(m) : m[i][1] = k
    THEN [i \in 1..Len(m) |-> IF m[i][1] = k THEN <<k, v>> ELSE m[i]]
    ELSE LET n == Cardinality({i \in 1..Len(m) : KeyStateLess(m[i][1], k)})
         IN  SubSeq(m, 1, n) \o <<(<<k, v>>)>> \o SubSeq(m, n + 1, Len(m))

RECURSIVE BTreeMap_collect(_)
BTreeMap_collect(pairs) ==
    IF pairs = <<>>
    THEN BTreeMap_new
    ELSE LET n == Len(pairs)
         IN  BTreeMap_insert(BTreeMap_collect(SubSeq(pairs, 1, n - 1)),
                             pairs[n][1], pairs[n][2])

-----------------------------------------------------------------------------
(* Op<T>, TableChange, StateChangeSet, TableChangeSet                      *)

Op_New(data) == [type |-> "new", data |-> data]
Op_Modify(data) == [type |-> "modify", data |-> data]
Op_Delete == [type |-> "delete"]

TableChange(entries, size_increment) ==
    [entries |-> entries, size_increment |-> size_increment]

StateChangeSet(new_tables, removed_tables, changes) ==
    [new_tables |-> new_tables, removed_tables |-> removed_tables,
     changes |-> changes]

EmptyChanges == [h \in {} |-> TableChange(BTreeMap_new, 0)]

-----------------------------------------------------------------------------
(* KeyStateView, OpView, DynamicFieldView, TableChangeView and the change  *)
(* set views.                                                              *)

KeyStateView_from_KeyState(state) ==
    [key |-> StrView(state.key),
     key_type |-> TypeTagView_from(state.key_type),
     decoded_key |-> None]

KeyState_from_KeyStateView(state) ==
    [key |-> StrView_0(state.key),
     key_type |-> TypeTag_from(state.key_type)]

OpView_from_Op(op) ==
    CASE op.type = "new" -> [type |-> "new", data |-> StateView_from_State(op.data)]
      [] op.type = "modify" -> [type |-> "modify", data |-> StateView_from_State(op.data)]
      [] op.type = "delete" -> [type |-> "delete"]

Mut_Op_from_OpView(op) ==
    CASE op.type = "new" -> Op_New(State_from_StateView(op.data))
      [] op.type = "modify" -> Op_New(State_from_StateView(op.data))
      [] op.type = "delete" -> Op_Delete

Op_from_OpView(op) ==
    CASE op.type = "new" -> Op_New(State_from_StateView(op.data))
      [] op.type = "modify" -> Op_Modify(State_from_StateView(op.data))
      [] op.type = "delete" -> Op_Delete

DynamicFieldView_new(k, v) == [k |-> k, v |-> v]

TableChangeView_from_TableChange(table_change) ==
    [entries |->
        [i \in 1..Len(table_change.entries) |->
            DynamicFieldView_new(
                KeyStateView_from_KeyState(table_change.entries[i][1]),
                OpView_from_Op(table_change.entries[i][2]))],
     size_increment |-> table_change.size_increment]

TableChange_from_TableChangeView(table_change) ==
    [entries |->
        BTreeMap_collect(
            [i \in 1..Len(table_change.entries) |->
                <<KeyState_from_KeyStateView(table_change.entries[i].k),
                  Op_from_OpView(table_change.entries[i].v)>>]),
     size_increment |-> table_change.size_increment]

StateChangeSetView_from_StateChangeSet(table_change_set) ==
    [new_tables |-> table_change_set.new_tables,
     removed_tables |-> table_change_set.removed_tables,
     changes |-> [h \in DOMAIN table_change_set.changes |->
                    TableChangeView_from_TableChange(table_change_set.changes[h])]]

StateChangeSet_from_StateChangeSetView(table_change_set) ==
    [new_tables |-> table_change_set.new_tables,
     removed_tables |-> table_change_set.removed_tables,
     changes |-> [h \in DOMAIN table_change_set.changes |->
                    TableChange_from_TableChangeView(table_change_set.changes[h])]]

TableChangeSetView_from_TableChangeSet(table_change_set) ==
    [new_tables |-> table_change_set.new_tables,
     removed_tables |-> {h \in table_change_set.removed_tables : TRUE},
     changes |-> [h \in DOMAIN table_change_set.changes |->
                    TableChangeView_from_TableChange(table_change_set.changes[h])]]

TableChangeSet_from_TableChangeSetView(table_change_set) ==
    [new_tables |-> table_change_set.new_tables,
     removed_tables |-> {h \in table_change_set.removed_tables : TRUE},
     changes |-> [h \in DOMAIN table_change_set.changes |->
                    TableChange_from_TableChangeView(table_change_set.changes[h])]]

-----------------------------------------------------------------------------
(* Sample universes of the change sets.                                    *)

MaxEntries == 2
MaxWireEntries == 2

ObjectIDs == {"0xa", "0xb"}

KeyStates == {KeyState(k, t) : k \in {<<0>>, <<0, 1>>}, t \in {"bool", "u8"}}

ChangeStates == {State(<<1>>, "u8"), State(<<0, 1>>, "u64")}

Ops == {Op_New(s) : s \in ChangeStates} \cup {Op_Modify(s) : s \in ChangeStates}
          \cup {Op_Delete}

SeqsUpTo(S, n) == UNION {[1..m -> S] : m \in 0..n}

\* What a client may put on the wire: any entries in any order, keys
\* repeated, decoded fields present or not, any size_increment.
WireKeyStateViews ==
    {KeyStateView_from_KeyState(k) : k \in KeyStates}
        \cup {[key |-> StrView(<<0>>), key_type |-> TypeTagView_from("u8"),
               decoded_key |-> Some(AnnotatedMoveValueView_from("d1"))]}

WireStateView ==
    [value |-> StrView(<<1>>), value_type |-> TypeTagView_from("u8"),
     decoded_value |-> Some(AnnotatedMoveValueView_from("d2"))]

WireOpViews ==
    {[type |-> "new", data |-> WireStateView],
     [type |-> "modify", data |-> WireStateView],
     [type |-> "delete"]}

WireEntries == {DynamicFieldView_new(k, v) : k \in WireKeyStateViews, v \in WireOpViews}

WireSizeIncrements == {-1, 0, 1}

WireTableChangeViews ==
    {[entries |-> e, size_increment |-> n] :
        e \in SeqsUpTo(WireEntries, MaxWireEntries), n \in WireSizeIncrements}

\* A wire change set view: either any two sets of handles and no changes,
\* or one handle's change and no sets.
WireChangeSetViews ==
    {[new_tables |-> n, removed_tables |-> r, changes |-> EmptyChanges] :
        n \in SUBSET ObjectIDs, r \in SUBSET ObjectIDs}
    \cup
    {[new_tables |-> {}, removed_tables |-> {},
      changes |-> [x \in {h} |-> v]] : h \in ObjectIDs, v \in WireTableChangeViews}

-----------------------------------------------------------------------------
(* The Change-Set Engine: the net Op of each touched (handle, key) of the  *)
(* transaction in progress.                                                *)

SizeDelta(op) ==
    CASE op.type = "new" -> 1
      [] op.type = "delete" -> -1
      [] OTHER -> 0

RECURSIVE SumLen(_, _)
SumLen(changes, hs) ==
    IF hs = {}
    THEN 0
    ELSE LET h == CHOOSE x \in hs : TRUE
         IN  Len(changes[h].entries) + SumLen(changes, hs \ {h})

TotalEntries(cs) == SumLen(cs.changes, DOMAIN cs.changes)

HasKey(entries, k) == \E i \in 1..Len(entries) : entries[i][1] = k

record_op(cs, h, k, op) ==
    LET old == IF h \in DOMAIN cs.changes
               THEN cs.changes[h]
               ELSE TableChange(BTreeMap_new, 0)
        new == TableChange(BTreeMap_insert(old.entries, k, op),
                           old.size_increment + SizeDelta(op))
    IN  [cs EXCEPT !.changes =
            [x \in DOMAIN cs.changes \cup {h} |->
                IF x = h THEN new ELSE cs.changes[x]]]

record_new_table(cs, h) == [cs EXCEPT !.new_tables = @ \cup {h}]

record_removed_table(cs, h) ==
    IF h \in cs.new_tables
    THEN [cs EXCEPT !.new_tables = @ \ {h},
                    !.changes = [x \in DOMAIN cs.changes \ {h} |-> cs.changes[x]]]
    ELSE [cs EXCEPT !.removed_tables = @ \cup {h}]

-----------------------------------------------------------------------------
(* GlobalStateFilterView::into_global_state_filter                         *)

MaxChainId == 1

AccountAddresses == {"0x1", "0x42"}
StructTags == {"0x2::object::Timestamp", "0x3::coin::CoinStore"}
MultiChainAddressStrings == {"bc1qxy", "0xdead"}

AccountAddressView_from(a) == StrView(a)
AccountAddress_from(v) == StrView_0(v)
StructTagView_from(t) == StrView(t)
StructTag_from(v) == StrView_0(v)

GlobalStateFilterViews ==
    {[variant |-> "ObjectTypeWithOwner", object_type |-> StructTagView_from(t),
      owner |-> AccountAddressView_from(a)] : t \in StructTags, a \in AccountAddresses}
    \cup {[variant |-> "ObjectType", object_type |-> StructTagView_from(t)] :
            t \in StructTags}
    \cup {[variant |-> "Owner", owner |-> AccountAddressView_from(a)] :
            a \in AccountAddresses}
    \cup {[variant |-> "ObjectId", object_id |-> o] : o \in ObjectIDs}
    \cup {[variant |-> "MultiChainAddress", multichain_id |-> c, address |-> a] :
            c \in 0..MaxChainId, a \in MultiChainAddressStrings}

Mut_into_global_state_filter(state_filter, resolve) ==
    CASE state_filter.variant = "ObjectTypeWithOwner" ->
            [variant |-> "ObjectTypeWithOwner",
             object_type |-> StructTag_from(state_filter.object_type),
             owner |-> resolve]
      [] state_filter.variant = "ObjectType" ->
            [variant |-> "ObjectType",
             object_type |-> StructTag_from(state_filter.object_type)]
      [] state_filter.variant = "Owner" ->
            [variant |-> "Owner", owner |-> AccountAddress_from(state_filter.owner)]
      [] state_filter.variant = "ObjectId" ->
            [variant |-> "ObjectId", object_id |-> state_filter.object_id]
      [] state_filter.variant = "MultiChainAddress" ->
            [variant |-> "Owner", owner |-> resolve]

into_global_state_filter(state_filter, resolve) ==
    CASE state_filter.variant = "ObjectTypeWithOwner" ->
            [variant |-> "ObjectTypeWithOwner",
             object_type |-> StructTag_from(state_filter.object_type),
             owner |-> AccountAddress_from(state_filter.owner)]
      [] state_filter.variant = "ObjectType" ->
            [variant |-> "ObjectType",
             object_type |-> StructTag_from(state_filter.object_type)]
      [] state_filter.variant = "Owner" ->
            [variant |-> "Owner", owner |-> AccountAddress_from(state_filter.owner)]
      [] state_filter.variant = "ObjectId" ->
            [variant |-> "ObjectId", object_id |-> state_filter.object_id]
      [] state_filter.variant = "MultiChainAddress" ->
            [variant |-> "Owner", owner |-> resolve]

-----------------------------------------------------------------------------
(* IndexerGlobalStateView / IndexerTableStateView: built from the stored   *)
(* row, whose decoded columns hold JSON text.                              *)

MaxTxOrder == 1

Ok(v) == [tag |-> "Ok", val |-> v]
Err(e) == [tag |-> "Err", err |-> e]

\* The texts a row may hold: two that parse as an annotated value, two that
\* do not.
StoredTexts == {"{\"value\":1}", "{\"value\":2}", "", "{\"value\":"}

serde_json_from_str(s) ==
    CASE s = "{\"value\":1}" -> Ok([annotated |-> "d1"])
      [] s = "{\"value\":2}" -> Ok([annotated |-> "d2"])
      [] OTHER -> Err("serde_json::Error")

IndexerGlobalStates ==
    [object_id : ObjectIDs, owner : AccountAddresses, flag : {0},
     value : StoredTexts, object_type : StructTags, state_root : {"0x5350415253"},
     size : {0}, tx_order : 0..MaxTxOrder, state_index : {0, 3},
     created_at : {1000}, updated_at : {1000, 2000}]

IndexerTableStates ==
    [table_handle : ObjectIDs, key_hex : {"0x00", "0x0001"}, key_str : StoredTexts,
     value : StoredTexts, key_type : {"u8"}, value_type : {"u64"},
     tx_order : 0..MaxTxOrder, state_index : {0, 3},
     created_at : {1000}, updated_at : {2000}]

try_new_from_global_state(state) ==
    LET value == serde_json_from_str(state.value)
    IN  IF value.tag = "Err"
        THEN Err(value.err)
        ELSE Ok([object_id |-> state.object_id,
                 owner |-> AccountAddressView_from(state.owner),
                 flag |-> state.flag,
                 value |-> value.val,
                 object_type |-> StructTagView_from(state.object_type),
                 state_root |-> AccountAddressView_from(state.state_root),
                 size |-> state.size,
                 tx_order |-> state.tx_order,
                 state_index |-> state.state_index,
                 created_at |-> state.created_at,
                 updated_at |-> state.updated_at])

try_new_from_table_state(state) ==
    LET key == serde_json_from_str(state.key_str)
        value == serde_json_from_str(state.value)
    IN  IF key.tag = "Err"
        THEN Err(key.err)
        ELSE IF value.tag = "Err"
        THEN Err(value.err)
        ELSE Ok([table_handle |-> state.table_handle,
                 key_hex |-> state.key_hex,
                 key |-> key.val,
                 value |-> value.val,
                 key_type |-> TypeTagView_from(state.key_type),
                 value_type |-> TypeTagView_from(state.value_type),
                 tx_order |-> state.tx_order,
                 state_index |-> state.state_index,
                 created_at |-> state.created_at,
                 updated_at |-> state.updated_at])

-----------------------------------------------------------------------------
(* The gas schedule of the table extension and the Box Store primitives it *)
(* meters.                                                                 *)

MaxMul == 2
MaxBoxSize == 2

BoxKeys == {"a", "b"}

Mut_GasParameters_add_box(m) ==
    [common |-> [load_base |-> 1000 * m, load_per_byte |-> 10 * m,
                 load_failure |-> 5 * m],
     add_box |-> [base |-> 500 * m, per_byte_serialized |-> 10],
     borrow_box |-> [base |-> 500 * m, per_byte_serialized |-> 10 * m],
     contains_box |-> [base |-> 500 * m, per_byte_serialized |-> 10 * m],
     remove_box |-> [base |-> 500 * m, per_byte_serialized |-> 10 * m],
     drop_unchecked_box |-> [base |-> 100 * m],
     box_length |-> [base |-> 100 * m]]

Mut_GasParameters_drop(m) ==
    [common |-> [load_base |-> 1000 * m, load_per_byte |-> 10 * m,
                 load_failure |-> 5 * m],
     add_box |-> [base |-> 500 * m, per_byte_serialized |-> 10 * m],
     borrow_box |-> [base |-> 500 * m, per_byte_serialized |-> 10 * m],
     contains_box |-> [base |-> 500 * m, per_byte_serialized |-> 10 * m],
     remove_box |-> [base |-> 500 * m, per_byte_serialized |-> 10 * m],
     drop_unchecked_box |-> [base |-> 100 * m, per_byte_serialized |-> 10 * m],
     box_length |-> [base |-> 100 * m]]

GasParameters(m) ==
    [common |-> [load_base |-> 1000 * m, load_per_byte |-> 10 * m,
                 load_failure |-> 5 * m],
     add_box |-> [base |-> 500 * m, per_byte_serialized |-> 10 * m],
     borrow_box |-> [base |-> 500 * m, per_byte_serialized |-> 10 * m],
     contains_box |-> [base |-> 500 * m, per_byte_serialized |-> 10 * m],
     remove_box |-> [base |-> 500 * m, per_byte_serialized |-> 10 * m],
     drop_unchecked_box |-> [base |-> 100 * m],
     box_length |-> [base |-> 100 * m]]

\* base + per_byte_serialized * encoded_size; flat when the operation
\* declares no per-byte parameter.
Cost(op, size) ==
    LET p == GasParameters(MUL)[op]
    IN  p.base + (IF "per_byte_serialized" \in DOMAIN p
                  THEN p.per_byte_serialized * size
                  ELSE 0)

LoadCost(found, size) ==
    LET p == GasParameters(MUL).common
    IN  p.load_base + (IF found THEN p.load_per_byte * size ELSE p.load_failure)

NoBoxes == [k \in {} |-> 0]

RECURSIVE SumSizes(_, _)
SumSizes(boxes, ks) ==
    IF ks = {}
    THEN 0
    ELSE LET k == CHOOSE x \in ks : TRUE
         IN  boxes[k] + SumSizes(boxes, ks \ {k})

TableBytes(t) == SumSizes(t.boxes, DOMAIN t.boxes)
TableLength(t) == Cardinality(DOMAIN t.boxes)

OpRecord(op, h, t, error, size, cost, ret) ==
    [op |-> op, handle |-> h, ok |-> (error = "none"), error |-> error,
     size |-> size, cost |-> cost, ret |-> ret,
     entries_before |-> TableLength(t), bytes_before |-> TableBytes(t)]

InitBox ==
    /\ MUL \in 1..MaxMul
    /\ tables = [h \in ObjectIDs |-> [status |-> "unknown", boxes |-> NoBoxes]]
    /\ last_op = [op |-> "none"]

IdleBox ==
    /\ MUL = 1
    /\ tables = [h \in ObjectIDs |-> [status |-> "unknown", boxes |-> NoBoxes]]
    /\ last_op = [op |-> "none"]

load(h, k) ==
    LET t == tables[h]
        found == t.status = "live" /\ k \in DOMAIN t.boxes
        size == IF found THEN t.boxes[k] ELSE 0
    IN  /\ last_op' = OpRecord("load", h, t, IF found THEN "none" ELSE "NotFound",
                               size, LoadCost(found, size), size)
        /\ UNCHANGED <<MUL, tables>>
        /\ UNCHANGED <<viewVars, indexerVars>>

add_box(h, k, size) ==
    LET t == tables[h]
        error == IF t.status = "dropped" THEN "InvalidTableHandle"
                 ELSE IF k \in DOMAIN t.boxes THEN "DuplicateKey"
                 ELSE "none"
    IN  /\ last_op' = OpRecord("add_box", h, t, error, size, Cost("add_box", size), 0)
        /\ tables' = IF error = "none"
                     THEN [tables EXCEPT ![h] =
                             [status |-> "live",
                              boxes |-> [x \in DOMAIN t.boxes \cup {k} |->
                                            IF x = k THEN size ELSE t.boxes[x]]]]
                     ELSE tables
        /\ UNCHANGED MUL
        /\ UNCHANGED <<viewVars, indexerVars>>

borrow_box(h, k) ==
    LET t == tables[h]
        error == IF t.status # "live" THEN "InvalidTableHandle"
                 ELSE IF k \notin DOMAIN t.boxes THEN "KeyNotFound"
                 ELSE "none"
        size == IF error = "none" THEN t.boxes[k] ELSE 0
    IN  /\ last_op' = OpRecord("borrow_box", h, t, error, size,
                               Cost("borrow_box", size), size)
        /\ UNCHANGED <<MUL, tables>>
        /\ UNCHANGED <<viewVars, indexerVars>>

contains_box(h, k) ==
    LET t == tables[h]
        found == t.status = "live" /\ k \in DOMAIN t.boxes
        size == IF found THEN t.boxes[k] ELSE 0
    IN  /\ last_op' = OpRecord("contains_box", h, t, "none", size,
                               Cost("contains_box", size), IF found THEN 1 ELSE 0)
        /\ UNCHANGED <<MUL, tables>>
        /\ UNCHANGED <<viewVars, indexerVars>>

remove_box(h, k) ==
    LET t == tables[h]
        error == IF t.status # "live" THEN "InvalidTableHandle"
                 ELSE IF k \notin DOMAIN t.boxes THEN "KeyNotFound"
                 ELSE "none"
        size == IF error = "none" THEN t.boxes[k] ELSE 0
    IN  /\ last_op' = OpRecord("remove_box", h, t, error, size,
                               Cost("remove_box", size), size)
        /\ tables' = IF error = "none"
                     THEN [tables EXCEPT ![h].boxes =
                             [x \in DOMAIN t.boxes \ {k} |-> t.boxes[x]]]
                     ELSE tables
        /\ UNCHANGED MUL
        /\ UNCHANGED <<viewVars, indexerVars>>

\* No emptiness check and no scan: whatever the table holds is discarded.
drop_unchecked_box(h) ==
    LET t == tables[h]
        error == IF t.status # "live" THEN "InvalidTableHandle" ELSE "none"
    IN  /\ last_op' = OpRecord("drop_unchecked_box", h, t, error, TableBytes(t),
                               Cost("drop_unchecked_box", TableBytes(t)), 0)
        /\ tables' = IF error = "none"
                     THEN [tables EXCEPT ![h] = [status |-> "dropped", boxes |-> NoBoxes]]
                     ELSE tables
        /\ UNCHANGED MUL
        /\ UNCHANGED <<viewVars, indexerVars>>

box_length(h) ==
    LET t == tables[h]
        error == IF t.status # "live" THEN "InvalidTableHandle" ELSE "none"
    IN  /\ last_op' = OpRecord("box_length", h, t, error, TableBytes(t),
                               Cost("box_length", TableBytes(t)), TableLength(t))
        /\ UNCHANGED <<MUL, tables>>
        /\ UNCHANGED <<viewVars, indexerVars>>

NextBox ==
    \/ \E h \in ObjectIDs, k \in BoxKeys : load(h, k)
    \/ \E h \in ObjectIDs, k \in BoxKeys, n \in 1..MaxBoxSize :
          add_box(h, k, n)
    \/ \E h \in ObjectIDs, k \in BoxKeys : borrow_box(h, k)
    \/ \E h \in ObjectIDs, k \in BoxKeys : contains_box(h, k)
    \/ \E h \in ObjectIDs, k \in BoxKeys : remove_box(h, k)
    \/ \E h \in ObjectIDs : drop_unchecked_box(h)
    \/ \E h \in ObjectIDs : box_length(h)

-----------------------------------------------------------------------------
(* The Indexer Projection: the row schema and the natural-key upsert of    *)
(* each committed transaction's records.                                   *)

MaxDeliveries == 3

events_columns ==
    {"event_handle_id", "event_seq", "event_type", "event_data", "event_index",
     "tx_hash", "tx_order", "sender", "created_at"}
events_primary_key(r) == <<r.event_index, r.tx_order>>

global_states_columns ==
    {"object_id", "owner", "flag", "value", "state_root", "size", "object_type",
     "tx_order", "state_index", "created_at", "updated_at"}
global_states_primary_key(r) == <<r.object_id>>

table_change_sets_columns ==
    {"tx_order", "state_index", "table_handle", "table_change_set", "created_at"}
table_change_sets_primary_key(r) == <<r.tx_order, r.state_index>>

table_states_columns ==
    {"table_handle", "key_hex", "key_str", "value", "key_type", "value_type",
     "tx_order", "state_index", "created_at", "updated_at"}

Mut_table_states_primary_key(r) == <<r.table_handle, r.key_hex, r.tx_order>>

table_states_primary_key(r) == <<r.table_handle, r.key_hex>>

transactions_columns ==
    {"tx_order", "tx_hash", "transaction_type", "sequence_number", "multichain_id",
     "multichain_address", "multichain_original_address", "sender", "action",
     "action_type", "action_raw", "auth_validator_id", "authenticator_payload",
     "tx_accumulator_root", "transaction_raw", "state_root", "event_root",
     "gas_used", "status", "tx_order_auth_validator_id",
     "tx_order_authenticator_payload", "created_at"}
transactions_primary_key(r) == <<r.tx_order>>

\* A delivery: one committed transaction's change to one key of one table,
\* with the transaction context the runtime supplies.
Deliveries ==
    [tx_order : 0..MaxTxOrder, state_index : {0, 1}, table_handle : ObjectIDs,
     key_hex : {"0x00"}, op : {"new", "delete"}]

Timestamp(tx_order) == 1000 + tx_order
TxHash(tx_order) == <<"tx", tx_order>>

PrimaryKey(table, r) ==
    CASE table = "events" -> events_primary_key(r)
      [] table = "global_states" -> global_states_primary_key(r)
      [] table = "table_change_sets" -> table_change_sets_primary_key(r)
      [] table = "table_states" -> table_states_primary_key(r)
      [] table = "transactions" -> transactions_primary_key(r)

Upsert(rows, table, row) ==
    {r \in rows : PrimaryKey(table, r) # PrimaryKey(table, row)} \cup {row}

\* created_at of the row already stored under the key of `row`, the incoming
\* one's else.
CreatedAt(rows, table, row) ==
    IF \E r \in rows : PrimaryKey(table, r) = PrimaryKey(table, row)
    THEN (CHOOSE r \in rows : PrimaryKey(table, r) = PrimaryKey(table, row)).created_at
    ELSE row.created_at

TransactionRow(d) ==
    [tx_order |-> d.tx_order, tx_hash |-> TxHash(d.tx_order),
     transaction_type |-> "rooch", sequence_number |-> d.tx_order,
     multichain_id |-> 0, multichain_address |-> "0x1",
     multichain_original_address |-> "0x1", sender |-> "0x1",
     action |-> "function", action_type |-> 1, action_raw |-> <<>>,
     auth_validator_id |-> 0, authenticator_payload |-> <<>>,
     tx_accumulator_root |-> TxHash(d.tx_order), transaction_raw |-> <<>>,
     state_root |-> TxHash(d.tx_order), event_root |-> TxHash(d.tx_order),
     gas_used |-> 0, status |-> "executed", tx_order_auth_validator_id |-> 0,
     tx_order_authenticator_payload |-> <<>>,
     created_at |-> Timestamp(d.tx_order)]

EventRow(d) ==
    [event_handle_id |-> d.table_handle, event_seq |-> d.tx_order,
     event_type |-> "0x2::table::Changed", event_data |-> <<>>,
     event_index |-> 0, tx_hash |-> TxHash(d.tx_order), tx_order |-> d.tx_order,
     sender |-> "0x1", created_at |-> Timestamp(d.tx_order)]

\* A dropped table or a deleted key is a flag or tombstone update, never a
\* removed row.
GlobalStateRow(d) ==
    [object_id |-> d.table_handle, owner |-> "0x1",
     flag |-> 0, value |-> "{\"value\":1}", state_root |-> TxHash(d.tx_order),
     size |-> (IF d.op = "new" THEN 1 ELSE 0),
     object_type |-> "0x2::table::Table",
     tx_order |-> d.tx_order, state_index |-> d.state_index,
     created_at |-> Timestamp(d.tx_order),
     updated_at |-> Timestamp(d.tx_order)]

TableChangeSetRow(d) ==
    [tx_order |-> d.tx_order, state_index |-> d.state_index,
     table_handle |-> d.table_handle,
     table_change_set |-> <<d.key_hex, d.op>>,
     created_at |-> Timestamp(d.tx_order)]

TableStateRow(d) ==
    [table_handle |-> d.table_handle, key_hex |-> d.key_hex,
     key_str |-> "{\"value\":1}",
     value |-> (IF d.op = "delete" THEN "" ELSE "{\"value\":2}"),
     key_type |-> "u8", value_type |-> "u64",
     tx_order |-> d.tx_order, state_index |-> d.state_index,
     created_at |-> Timestamp(d.tx_order),
     updated_at |-> Timestamp(d.tx_order)]

\* An update keeps the created_at of the row it replaces.
UpsertKeepingCreatedAt(rows, table, row) ==
    Upsert(rows, table, [row EXCEPT !.created_at = CreatedAt(rows, table, row)])

apply_delivery(rows, d) ==
    [transactions |-> Upsert(rows.transactions, "transactions", TransactionRow(d)),
     events |-> Upsert(rows.events, "events", EventRow(d)),
     global_states |->
        UpsertKeepingCreatedAt(rows.global_states, "global_states", GlobalStateRow(d)),
     table_change_sets |->
        Upsert(rows.table_change_sets, "table_change_sets", TableChangeSetRow(d)),
     table_states |->
        UpsertKeepingCreatedAt(rows.table_states, "table_states", TableStateRow(d))]

Mut_out_of_order(d, hw) == FALSE

out_of_order(d, hw) == d.tx_order < hw

EmptyDb ==
    [transactions |-> {}, events |-> {}, global_states |-> {},
     table_change_sets |-> {}, table_states |-> {}]

InitIndexer ==
    /\ db = EmptyDb
    /\ high_water = -1
    /\ applied = <<>>
    /\ buffer = <<>>
    /\ last_delivery = [tag |-> "NoValue"]
    /\ last_error = "none"

ApplyDelivery(d) ==
    /\ Len(applied) + Len(buffer) < MaxDeliveries
    /\ ~out_of_order(d, high_water)
    /\ db' = apply_delivery(db, d)
    /\ high_water' = d.tx_order
    /\ applied' = Append(applied, d)
    /\ last_delivery' = d
    /\ last_error' = "none"
    /\ UNCHANGED buffer
    /\ UNCHANGED <<viewVars, boxVars>>

RejectDelivery(d) ==
    /\ Len(applied) + Len(buffer) < MaxDeliveries
    /\ out_of_order(d, high_water)
    /\ buffer' = Append(buffer, d)
    /\ last_delivery' = d
    /\ last_error' = "OutOfOrderDelivery"
    /\ UNCHANGED <<db, high_water, applied>>
    /\ UNCHANGED <<viewVars, boxVars>>

NextIndexer ==
    \/ \E d \in Deliveries : ApplyDelivery(d)
    \/ \E d \in Deliveries : RejectDelivery(d)

-----------------------------------------------------------------------------
(* KeyStateView: #[derive(Ord, Eq, PartialOrd, PartialEq)], which compares *)
(* the fields in their declaration order: key, key_type, decoded_key.      *)

KeyStateViews ==
    {[key |-> StrView(k.key), key_type |-> TypeTagView_from(k.key_type),
      decoded_key |-> d] :
        k \in KeyStates,
        d \in {None} \cup {Some(AnnotatedMoveValueView_from(x)) : x \in DecodedValues}}

Ordering(less, equal) ==
    IF less THEN "Less" ELSE IF equal THEN "Equal" ELSE "Greater"

\* Option<T>: None before Some, two Some by their payloads.
Option_cmp(a, b) ==
    CASE a.tag = "None" /\ b.tag = "None" -> "Equal"
      [] a.tag = "None" /\ b.tag = "Some" -> "Less"
      [] a.tag = "Some" /\ b.tag = "None" -> "Greater"
      [] OTHER ->
            LET x == a.val.annotated
                y == b.val.annotated
            IN  Ordering(x = "d1" /\ y = "d2", x = y)

KeyStateView_eq(a, b) ==
    /\ a.key = b.key
    /\ a.key_type = b.key_type
    /\ a.decoded_key = b.decoded_key

KeyStateView_cmp(a, b) ==
    LET by_key == Ordering(BytesLess(StrView_0(a.key), StrView_0(b.key)),
                           a.key = b.key)
        by_type == Ordering(TypeTagIndex(StrView_0(a.key_type))
                                < TypeTagIndex(StrView_0(b.key_type)),
                            a.key_type = b.key_type)
    IN  IF by_key # "Equal" THEN by_key
        ELSE IF by_type # "Equal" THEN by_type
        ELSE Option_cmp(a.decoded_key, b.decoded_key)

-----------------------------------------------------------------------------
(* The view layer as a pipeline: a canonical value is rendered on the way  *)
(* out and converted back on the way in; a view may also come from a       *)
(* client.                                                                 *)

NoValue == [tag |-> "NoValue"]

InitState ==
    /\ kind \in {"State", "AnnotatedState"}
    /\ domain \in (IF kind = "State" THEN States ELSE AnnotatedStates)
    /\ pc = "domain"
    /\ origin = "domain"
    /\ view = NoValue
    /\ resolve_address = NoValue
    /\ result = NoValue

StateToView ==
    /\ pc = "domain" /\ kind = "State"
    /\ view' = StateView_from_State(domain)
    /\ pc' = "view"
    /\ UNCHANGED <<kind, origin, domain, resolve_address, result>> /\ UNCHANGED <<boxVars, indexerVars>>

AnnotatedStateToView ==
    /\ pc = "domain" /\ kind = "AnnotatedState"
    /\ view' = StateView_from_AnnotatedState(domain)
    /\ pc' = "view"
    /\ UNCHANGED <<kind, origin, domain, resolve_address, result>> /\ UNCHANGED <<boxVars, indexerVars>>

StateViewToState ==
    /\ pc = "view" /\ kind \in {"State", "AnnotatedState"}
    /\ result' = State_from_StateView(view)
    /\ pc' = "done"
    /\ UNCHANGED <<kind, origin, domain, view, resolve_address>> /\ UNCHANGED <<boxVars, indexerVars>>

InitChangeSet ==
    /\ kind = "Transaction"
    /\ domain = StateChangeSet({}, {}, EmptyChanges)
    /\ pc = "domain"
    /\ origin = "domain"
    /\ view = NoValue
    /\ resolve_address = NoValue
    /\ result = NoValue

EngineRecordOp(h, k, op) ==
    /\ pc = "domain" /\ kind = "Transaction"
    /\ h \notin domain.removed_tables
    /\ TotalEntries(domain) < MaxEntries
    /\ ~(h \in DOMAIN domain.changes /\ HasKey(domain.changes[h].entries, k))
    /\ domain' = record_op(domain, h, k, op)
    /\ UNCHANGED <<pc, kind, origin, view, resolve_address, result>> /\ UNCHANGED <<boxVars, indexerVars>>

EngineNewTable(h) ==
    /\ pc = "domain" /\ kind = "Transaction"
    /\ h \notin domain.new_tables \cup domain.removed_tables
    /\ h \notin DOMAIN domain.changes
    /\ domain' = record_new_table(domain, h)
    /\ UNCHANGED <<pc, kind, origin, view, resolve_address, result>> /\ UNCHANGED <<boxVars, indexerVars>>

EngineRemoveTable(h) ==
    /\ pc = "domain" /\ kind = "Transaction"
    /\ h \notin domain.removed_tables
    /\ domain' = record_removed_table(domain, h)
    /\ UNCHANGED <<pc, kind, origin, view, resolve_address, result>> /\ UNCHANGED <<boxVars, indexerVars>>

StateChangeSetToView ==
    /\ pc = "domain" /\ kind = "Transaction"
    /\ view' = StateChangeSetView_from_StateChangeSet(domain)
    /\ kind' = "StateChangeSet"
    /\ pc' = "view"
    /\ UNCHANGED <<origin, domain, resolve_address, result>> /\ UNCHANGED <<boxVars, indexerVars>>

TableChangeSetToView ==
    /\ pc = "domain" /\ kind = "Transaction"
    /\ view' = TableChangeSetView_from_TableChangeSet(domain)
    /\ kind' = "TableChangeSet"
    /\ pc' = "view"
    /\ UNCHANGED <<origin, domain, resolve_address, result>> /\ UNCHANGED <<boxVars, indexerVars>>

ReceiveStateChangeSetView ==
    /\ pc = "domain" /\ kind = "Transaction"
    /\ domain = StateChangeSet({}, {}, EmptyChanges)
    /\ \E v \in WireChangeSetViews : view' = v
    /\ kind' = "StateChangeSet"
    /\ origin' = "wire"
    /\ pc' = "view"
    /\ UNCHANGED <<domain, resolve_address, result>> /\ UNCHANGED <<boxVars, indexerVars>>

ReceiveTableChangeSetView ==
    /\ pc = "domain" /\ kind = "Transaction"
    /\ domain = StateChangeSet({}, {}, EmptyChanges)
    /\ \E v \in WireChangeSetViews : view' = v
    /\ kind' = "TableChangeSet"
    /\ origin' = "wire"
    /\ pc' = "view"
    /\ UNCHANGED <<domain, resolve_address, result>> /\ UNCHANGED <<boxVars, indexerVars>>

StateChangeSetViewToDomain ==
    /\ pc = "view" /\ kind = "StateChangeSet"
    /\ result' = StateChangeSet_from_StateChangeSetView(view)
    /\ pc' = "done"
    /\ UNCHANGED <<kind, origin, domain, view, resolve_address>> /\ UNCHANGED <<boxVars, indexerVars>>

TableChangeSetViewToDomain ==
    /\ pc = "view" /\ kind = "TableChangeSet"
    /\ result' = TableChangeSet_from_TableChangeSetView(view)
    /\ pc' = "done"
    /\ UNCHANGED <<kind, origin, domain, view, resolve_address>> /\ UNCHANGED <<boxVars, indexerVars>>

InitFilter ==
    /\ kind = "GlobalStateFilter"
    /\ view \in GlobalStateFilterViews
    /\ resolve_address \in AccountAddresses
    /\ pc = "view"
    /\ origin = "wire"
    /\ domain = NoValue
    /\ result = NoValue

IntoGlobalStateFilter ==
    /\ pc = "view" /\ kind = "GlobalStateFilter"
    /\ result' = into_global_state_filter(view, resolve_address)
    /\ pc' = "done"
    /\ UNCHANGED <<kind, origin, domain, view, resolve_address>> /\ UNCHANGED <<boxVars, indexerVars>>

InitIndexerRow ==
    /\ kind \in {"IndexerGlobalState", "IndexerTableState"}
    /\ domain \in (IF kind = "IndexerGlobalState"
                   THEN IndexerGlobalStates ELSE IndexerTableStates)
    /\ pc = "domain"
    /\ origin = "domain"
    /\ view = NoValue
    /\ resolve_address = NoValue
    /\ result = NoValue

TryNewFromGlobalState ==
    /\ pc = "domain" /\ kind = "IndexerGlobalState"
    /\ result' = try_new_from_global_state(domain)
    /\ pc' = "done"
    /\ UNCHANGED <<kind, origin, domain, view, resolve_address>> /\ UNCHANGED <<boxVars, indexerVars>>

TryNewFromTableState ==
    /\ pc = "domain" /\ kind = "IndexerTableState"
    /\ result' = try_new_from_table_state(domain)
    /\ pc' = "done"
    /\ UNCHANGED <<kind, origin, domain, view, resolve_address>> /\ UNCHANGED <<boxVars, indexerVars>>

InitKeyStateViews ==
    /\ kind = "KeyStateViews"
    /\ view \in KeyStateViews \X KeyStateViews
    /\ pc = "view"
    /\ origin = "wire"
    /\ domain = NoValue
    /\ resolve_address = NoValue
    /\ result = NoValue

CompareKeyStateViews ==
    /\ pc = "view" /\ kind = "KeyStateViews"
    /\ result' = [eq |-> KeyStateView_eq(view[1], view[2]),
                  cmp |-> KeyStateView_cmp(view[1], view[2]),
                  key_states |-> <<KeyState_from_KeyStateView(view[1]),
                                   KeyState_from_KeyStateView(view[2])>>]
    /\ pc' = "done"
    /\ UNCHANGED <<kind, origin, domain, view, resolve_address>> /\ UNCHANGED <<boxVars, indexerVars>>

InitView ==
    /\ InitState \/ InitChangeSet \/ InitFilter \/ InitIndexerRow
       \/ InitKeyStateViews
    /\ IdleBox
    /\ InitIndexer

NextView ==
    \/ StateToView
    \/ AnnotatedStateToView
    \/ StateViewToState
    \/ \E h \in ObjectIDs, k \in KeyStates, op \in Ops : EngineRecordOp(h, k, op)
    \/ \E h \in ObjectIDs : EngineNewTable(h)
    \/ \E h \in ObjectIDs : EngineRemoveTable(h)
    \/ StateChangeSetToView
    \/ TableChangeSetToView
    \/ ReceiveStateChangeSetView
    \/ ReceiveTableChangeSetView
    \/ StateChangeSetViewToDomain
    \/ TableChangeSetViewToDomain
    \/ IntoGlobalStateFilter
    \/ TryNewFromGlobalState
    \/ TryNewFromTableState
    \/ CompareKeyStateViews

SpecView == InitView /\ [][NextView]_vars

IdleView ==
    /\ pc = "idle"
    /\ kind = "none"
    /\ origin = "domain"
    /\ domain = NoValue
    /\ view = NoValue
    /\ resolve_address = NoValue
    /\ result = NoValue

InitBoxStore == InitBox /\ IdleView /\ InitIndexer

SpecBox == InitBoxStore /\ [][NextBox]_vars

InitIndexerProjection == InitIndexer /\ IdleView /\ IdleBox

SpecIndexer == InitIndexerProjection /\ [][NextIndexer]_vars

-----------------------------------------------------------------------------
\* C1: State -> StateView -> State gives back exactly the value and the
\* value_type of the State; AnnotatedState -> StateView -> State gives back
\* exactly the inner State, the decoded value changing nothing.
C1_StateRoundTrip ==
    (pc = "done" /\ kind \in {"State", "AnnotatedState"}) =>
        /\ kind = "State" =>
              /\ result.value = domain.value
              /\ result.value_type = domain.value_type
              /\ result = domain
        /\ kind = "AnnotatedState" => result = domain.state

C1_Witness ==
    /\ pc = "done"
    /\ kind = "AnnotatedState"
    /\ view.decoded_value # None
    /\ Len(domain.state.value) = MaxValueLen
    /\ domain.state.value_type = "u64"
    /\ result = domain.state

-----------------------------------------------------------------------------
\* C2: StateChangeSet -> StateChangeSetView -> StateChangeSet reproduces the
\* change set exactly: the same new_tables, removed_tables and handles of
\* changes, and per handle the same size_increment and the same entries in the
\* same order, each with its KeyState, its Op tag and its payload State.
C2_ChangeSetRoundTrip ==
    (pc = "done" /\ kind = "StateChangeSet" /\ origin = "domain") =>
        /\ result.new_tables = domain.new_tables
        /\ result.removed_tables = domain.removed_tables
        /\ DOMAIN result.changes = DOMAIN domain.changes
        /\ \A h \in DOMAIN domain.changes :
              /\ result.changes[h].size_increment = domain.changes[h].size_increment
              /\ Len(result.changes[h].entries) = Len(domain.changes[h].entries)
              /\ \A i \in 1..Len(domain.changes[h].entries) :
                    /\ result.changes[h].entries[i][1] = domain.changes[h].entries[i][1]
                    /\ result.changes[h].entries[i][2].type
                          = domain.changes[h].entries[i][2].type
                    /\ result.changes[h].entries[i][2] = domain.changes[h].entries[i][2]
        /\ result = domain

C2_Witness ==
    /\ pc = "done" /\ kind = "StateChangeSet" /\ origin = "domain"
    /\ domain.new_tables # {}
    /\ domain.removed_tables # {}
    /\ \E h \in DOMAIN domain.changes :
          /\ Len(domain.changes[h].entries) = 2
          /\ domain.changes[h].entries[1][2].type = "modify"
          /\ domain.changes[h].entries[2][2].type = "delete"
          /\ domain.changes[h].size_increment = -1
    /\ result = domain

-----------------------------------------------------------------------------
\* C3: building an indexer view never fails on a decode failure: the result
\* is always a view that carries the raw fields of the row.
C3_DecodeFailureNonFatal ==
    (pc = "done" /\ kind \in {"IndexerGlobalState", "IndexerTableState"}) =>
        /\ result.tag = "Ok"
        /\ result.val.tx_order = domain.tx_order
        /\ result.val.state_index = domain.state_index
        /\ result.val.created_at = domain.created_at
        /\ result.val.updated_at = domain.updated_at
        /\ kind = "IndexerGlobalState" => result.val.object_id = domain.object_id
        /\ kind = "IndexerTableState" =>
              /\ result.val.table_handle = domain.table_handle
              /\ result.val.key_hex = domain.key_hex

-----------------------------------------------------------------------------
\* C4: into_global_state_filter maps MultiChainAddress to Owner(resolve_address)
\* whatever its multichain_id and address are, and maps each other variant to
\* the same-named variant with the same fields, whatever resolve_address is.
C4_FilterMapping ==
    (pc = "done" /\ kind = "GlobalStateFilter") =>
        /\ view.variant = "MultiChainAddress" =>
              /\ result = [variant |-> "Owner", owner |-> resolve_address]
              /\ \A c \in 0..MaxChainId, a \in MultiChainAddressStrings :
                    into_global_state_filter(
                        [variant |-> "MultiChainAddress", multichain_id |-> c,
                         address |-> a], resolve_address) = result
        /\ view.variant = "ObjectTypeWithOwner" =>
              result = [variant |-> "ObjectTypeWithOwner",
                        object_type |-> StrView_0(view.object_type),
                        owner |-> StrView_0(view.owner)]
        /\ view.variant = "ObjectType" =>
              result = [variant |-> "ObjectType",
                        object_type |-> StrView_0(view.object_type)]
        /\ view.variant = "Owner" =>
              result = [variant |-> "Owner", owner |-> StrView_0(view.owner)]
        /\ view.variant = "ObjectId" =>
              result = [variant |-> "ObjectId", object_id |-> view.object_id]
        /\ view.variant # "MultiChainAddress" =>
              \A a \in AccountAddresses : into_global_state_filter(view, a) = result

C4_Witness ==
    /\ pc = "done" /\ kind = "GlobalStateFilter"
    /\ view.variant = "MultiChainAddress"
    /\ view.multichain_id = MaxChainId
    /\ resolve_address = "0x42"
    /\ result = [variant |-> "Owner", owner |-> "0x42"]

-----------------------------------------------------------------------------
\* C9: no handle is in both new_tables and removed_tables of a change set
\* the system holds, one converted from a view included.
C9_NoHandleInBothSets ==
    /\ kind = "Transaction" => domain.new_tables \cap domain.removed_tables = {}
    /\ (pc = "done" /\ kind \in {"StateChangeSet", "TableChangeSet"}) =>
          result.new_tables \cap result.removed_tables = {}

-----------------------------------------------------------------------------
CountOps(entries, type) ==
    Cardinality({i \in 1..Len(entries) : entries[i][2].type = type})

SizeIncrementAndOrder(table_change) ==
    /\ table_change.size_increment
          = CountOps(table_change.entries, "new")
              - CountOps(table_change.entries, "delete")
    /\ \A i, j \in 1..Len(table_change.entries) :
          i < j => KeyStateLess(table_change.entries[i][1], table_change.entries[j][1])

\* C10: in every TableChange, one converted from a TableChangeView included,
\* size_increment is the number of New entries minus the number of Delete
\* entries, and the entries are in canonical KeyState order.
C10_SizeIncrementAndOrder ==
    /\ kind = "Transaction" =>
          \A h \in DOMAIN domain.changes : SizeIncrementAndOrder(domain.changes[h])
    /\ (pc = "done" /\ kind \in {"StateChangeSet", "TableChangeSet"}) =>
          \A h \in DOMAIN result.changes : SizeIncrementAndOrder(result.changes[h])

-----------------------------------------------------------------------------
\* C5: add_box on an entry of n serialized bytes is charged
\* 500*MUL + 10*MUL*n, and so the charge never decreases as n grows.
C5_AddBoxCost ==
    /\ last_op.op = "add_box" =>
          last_op.cost = 500 * MUL + 10 * MUL * last_op.size
    /\ \A n1, n2 \in 0..MaxBoxSize :
          n1 <= n2 => Cost("add_box", n1) <= Cost("add_box", n2)

C5_Witness ==
    /\ last_op.op = "add_box"
    /\ last_op.ok
    /\ last_op.size = MaxBoxSize
    /\ last_op.entries_before = 1
    /\ MUL = MaxMul
    /\ last_op.cost = 500 * MaxMul + 10 * MaxMul * MaxBoxSize

-----------------------------------------------------------------------------
\* C6: drop_unchecked_box and box_length declare a base parameter only and
\* are charged 100*MUL whatever the table holds; drop_unchecked_box succeeds
\* on a table that is not empty.
C6_FlatCost ==
    /\ DOMAIN GasParameters(MUL).drop_unchecked_box = {"base"}
    /\ DOMAIN GasParameters(MUL).box_length = {"base"}
    /\ last_op.op \in {"drop_unchecked_box", "box_length"} =>
          last_op.cost = 100 * MUL
    /\ (last_op.op = "drop_unchecked_box" /\ last_op.entries_before > 0) =>
          /\ last_op.ok
          /\ tables[last_op.handle].status = "dropped"

C6_Witness ==
    /\ last_op.op = "drop_unchecked_box"
    /\ last_op.ok
    /\ last_op.entries_before = 2
    /\ last_op.bytes_before = 2 * MaxBoxSize
    /\ last_op.cost = 100 * MUL
    /\ MUL = MaxMul

-----------------------------------------------------------------------------
NaturalKeyUnique(rows, cols) ==
    \A r1, r2 \in rows : (\A c \in cols : r1[c] = r2[c]) => r1 = r2

\* C7: applying the delivery just applied a second time leaves every table
\* as it is, and no table holds two rows with the same natural key:
\* transactions tx_order, events (event_index, tx_order), global_states
\* object_id, table_change_sets (tx_order, state_index), table_states
\* (table_handle, key_hex).
C7_ReplayIdempotent ==
    /\ (last_delivery # [tag |-> "NoValue"] /\ last_error = "none") =>
          apply_delivery(db, last_delivery) = db
    /\ NaturalKeyUnique(db.transactions, {"tx_order"})
    /\ NaturalKeyUnique(db.events, {"event_index", "tx_order"})
    /\ NaturalKeyUnique(db.global_states, {"object_id"})
    /\ NaturalKeyUnique(db.table_change_sets, {"tx_order", "state_index"})
    /\ NaturalKeyUnique(db.table_states, {"table_handle", "key_hex"})

C7_Witness ==
    /\ Len(applied) = 3
    /\ applied[2] = applied[3]
    /\ applied[1] # applied[2]
    /\ applied[1].table_handle = applied[2].table_handle
    /\ applied[1].tx_order < applied[2].tx_order
    /\ Cardinality(db.table_states) = 1
    /\ Cardinality(db.table_change_sets) = 2
    /\ last_error = "none"

-----------------------------------------------------------------------------
\* C8: the tx_order of the deliveries applied never decreases; a delivery is
\* rejected, with OutOfOrderDelivery, and buffered exactly when its tx_order
\* is lower than one already applied, so one of an equal tx_order is applied.
C8_NonDecreasingTxOrder ==
    /\ \A i, j \in 1..Len(applied) :
          i <= j => applied[i].tx_order <= applied[j].tx_order
    /\ high_water = (IF applied = <<>> THEN -1 ELSE applied[Len(applied)].tx_order)
    /\ \A i \in 1..Len(buffer) : buffer[i].tx_order < high_water
    /\ last_error = "OutOfOrderDelivery" =>
          /\ last_delivery = buffer[Len(buffer)]
          /\ last_delivery.tx_order < high_water
    /\ (last_error = "none" /\ last_delivery # [tag |-> "NoValue"]) =>
          last_delivery = applied[Len(applied)]

C8_Witness ==
    /\ Len(applied) = 2
    /\ applied[1].tx_order = applied[2].tx_order
    /\ applied[1].tx_order = MaxTxOrder
    /\ Len(buffer) = 1
    /\ buffer[1].tx_order < high_water
    /\ last_error = "OutOfOrderDelivery"

-----------------------------------------------------------------------------
\* C11: two KeyStateViews with the same key bytes and the same key type
\* compare equal and take the same place in the order whatever their
\* decoded_key fields are, so they are equal exactly when the KeyStates they
\* convert to are.
C11_DecodedKeyIgnored ==
    (pc = "done" /\ kind = "KeyStateViews") =>
        /\ (view[1].key = view[2].key /\ view[1].key_type = view[2].key_type) =>
              /\ result.eq
              /\ result.cmp = "Equal"
        /\ result.eq <=> (result.key_states[1] = result.key_states[2])
        /\ (result.cmp = "Equal") <=> (result.key_states[1] = result.key_states[2])

====
